---- MODULE Spec2Model ----
(***************************************************************************)
(* Subscription service: the HTTP handlers, the service layer and the      *)
(* PostgreSQL repository, as a state machine over the subscriptions table. *)
(*                                                                         *)
(* Texts are modelled by their fields: an "MM-YYYY" text is the tuple      *)
(* <<mm, yyyy>> of its two numbers (<< >> is the empty string), a UUID     *)
(* text is <<form, n>> ("canon" or "urn" spelling of UUID n) or <<"bad">>. *)
(* A Go pointer / nullable column is a set: {} is nil / NULL, {v} holds v. *)
(***************************************************************************)
EXTENDS Integers, Sequences, FiniteSets, TLC

VARIABLES
    store,    \* the subscriptions table: id -> row, for the ids present
    nextId,   \* the next value uuid.New() hands out
    now,      \* the value time.Now().UTC() returns
    resp,     \* the HTTP response of the request being answered, {} if none
    calls     \* per goroutine: the Update it is running between its two
              \* statements, or the response it has written

vars == <<store, nextId, now, resp, calls>>

(***************************************************************************)
(* Bounds of the model                                                     *)
(***************************************************************************)
MaxSubs == 2    \* subscriptions ever created in a run
MaxTime == 3    \* writes that stamp time.Now() in a run
MaxCalls == 2   \* goroutines serving Update requests at the same time

(***************************************************************************)
(* Values                                                                  *)
(***************************************************************************)
Nil == {}
Ptr(v) == {v}
Deref(p) == CHOOSE v \in p : TRUE

NilUUID == 0                       \* uuid.UUID{}: the zero value

\* "MM-YYYY" texts: three well-formed months, one with month 13.
Dec2024 == <<12, 2024>>
Jan2025 == <<1, 2025>>
Mar2025 == <<3, 2025>>
Bad2025 == <<13, 2025>>
EmptyText == << >>
ValidDateTexts == {Dec2024, Jan2025, Mar2025}
DateTexts == ValidDateTexts \cup {Bad2025}

\* UUID texts as they arrive in JSON bodies, query strings and paths.
UUIDText(n) == <<"canon", n>>
UrnUUIDText(n) == <<"urn", n>>
BadUUIDText == <<"bad">>

\* uuid.Parse: both spellings name the same UUID, anything else is an error.
ParseUUID(t) ==
    IF Len(t) = 2 /\ t[1] \in {"canon", "urn"}
    THEN [ok |-> TRUE, id |-> t[2]]
    ELSE [ok |-> FALSE, id |-> NilUUID]

(***************************************************************************)
(* Errors and HTTP statuses                                                *)
(***************************************************************************)
NoError == "nil"
ErrNotFound == "subscription not found"
ErrBind == "binding: validation failed"
ErrInvalidID == "invalid subscription id"
ErrInvalidUserID == "invalid user_id format"
ErrDateOutOfRange == "date/time field value out of range"

StatusOK == 200
StatusCreated == 201
StatusBadRequest == 400
StatusNotFound == 404
StatusInternalServerError == 500

\* c.JSON(status, body): body is a sequence of rows, total the calculated sum;
\* queries counts the storage statements the request issued, matched is the
\* set of ids its WHERE clause selected and req the query it answers (all
\* three are bookkeeping).
Response(op, status, err, body, total, queries, matched, req) ==
    [op |-> op, status |-> status, err |-> err, body |-> body,
     total |-> total, queries |-> queries, matched |-> matched, req |-> req]

(***************************************************************************)
(* domain.Subscription and the request types                               *)
(***************************************************************************)
Subscription(id, name, price, user, start, end, created, updated) ==
    [id |-> id, service_name |-> name, price |-> price, user_id |-> user,
     start_date |-> start, end_date |-> end,
     created_at |-> created, updated_at |-> updated]

\* binding:"required" / "required,min=0" of CreateSubscriptionRequest, and
\* the JSON decoding of user_id into a uuid.UUID.
BindCreate(req) ==
    /\ req.service_name # ""
    /\ req.price # 0
    /\ req.price >= 0
    /\ ParseUUID(req.user_id).ok
    /\ ParseUUID(req.user_id).id # NilUUID
    /\ req.start_date # EmptyText

\* UpdateSubscriptionRequest carries no binding tags: every body binds.
BindUpdate(req) == TRUE

(***************************************************************************)
(* Repository: single SQL statements over the table                        *)
(***************************************************************************)
\* INSERT INTO subscriptions ... VALUES (...)
RepoCreate(tbl, sub) ==
    [i \in DOMAIN tbl \cup {sub.id} |-> IF i = sub.id THEN sub ELSE tbl[i]]

\* SELECT ... WHERE id = $1 : the row, or ErrNotFound on pgx.ErrNoRows
RepoGetByID(tbl, id) ==
    IF id \in DOMAIN tbl
    THEN [err |-> NoError, sub |-> Ptr(tbl[id])]
    ELSE [err |-> ErrNotFound, sub |-> Nil]

\* SET service_name = $2, price = $3, start_date = $4, end_date = $5,
\*     updated_at = $6 WHERE id = $1
RepoUpdateRow(old, sub) ==
    [old EXCEPT !.service_name = sub.service_name,
                !.price = sub.price,
                !.start_date = sub.start_date,
                !.end_date = sub.end_date,
                !.updated_at = sub.updated_at]

\* RepoUpdate writing the row whether or not the id is there.
RepoUpsert(tbl, sub) ==
    [err |-> NoError,
     tbl |-> [i \in DOMAIN tbl \cup {sub.id} |->
                 IF i = sub.id
                 THEN (IF i \in DOMAIN tbl THEN RepoUpdateRow(tbl[i], sub)
                       ELSE sub)
                 ELSE tbl[i]]]

\* UPDATE subscriptions ... : ErrNotFound when RowsAffected() = 0
RepoUpdate(tbl, sub) ==
    IF sub.id \in DOMAIN tbl
    THEN [err |-> NoError,
          tbl |-> [tbl EXCEPT ![sub.id] = RepoUpdateRow(tbl[sub.id], sub)]]
    ELSE [err |-> ErrNotFound, tbl |-> tbl]

\* RepoDelete without the RowsAffected() check.
RepoDeleteUnchecked(tbl, id) ==
    [err |-> NoError, tbl |-> [i \in DOMAIN tbl \ {id} |-> tbl[i]]]

\* DELETE FROM subscriptions WHERE id = $1 : ErrNotFound when no row went
RepoDelete(tbl, id) ==
    IF id \in DOMAIN tbl
    THEN [err |-> NoError, tbl |-> [i \in DOMAIN tbl \ {id} |-> tbl[i]]]
    ELSE [err |-> ErrNotFound, tbl |-> tbl]

(***************************************************************************)
(* Service layer                                                           *)
(***************************************************************************)
\* SubscriptionService.Create builds the row from the bound request.
NewSubscription(req, id, t) ==
    Subscription(id, req.service_name, req.price, ParseUUID(req.user_id).id,
                 req.start_date, req.end_date, t, t)

\* ApplyUpdate copying end_date even when the request carries none.
ApplyUpdateAlwaysEnd(sub, req, t) ==
    [sub EXCEPT
        !.service_name = IF req.service_name # Nil
                         THEN Deref(req.service_name) ELSE @,
        !.price = IF req.price # Nil THEN Deref(req.price) ELSE @,
        !.start_date = IF req.start_date # Nil THEN Deref(req.start_date) ELSE @,
        !.end_date = req.end_date,
        !.updated_at = t]

\* SubscriptionService.Update: copy the fields the request carries over the
\* row that was read, and stamp updated_at.
ApplyUpdate(sub, req, t) ==
    [sub EXCEPT
        !.service_name = IF req.service_name # Nil
                         THEN Deref(req.service_name) ELSE @,
        !.price = IF req.price # Nil THEN Deref(req.price) ELSE @,
        !.start_date = IF req.start_date # Nil THEN Deref(req.start_date) ELSE @,
        !.end_date = IF req.end_date # Nil THEN req.end_date ELSE @,
        !.updated_at = t]

(***************************************************************************)
(* PostgreSQL functions used by the queries                                *)
(***************************************************************************)
Date(y, m, d) == [year |-> y, month |-> m, day |-> d]

\* TO_DATE(text, 'MM-YYYY'): the first day of the month, or the error
\* "date/time field value out of range" when the month is not 1..12.
ToDate(t) ==
    IF Len(t) = 2 /\ t[1] \in 1..12
    THEN [ok |-> TRUE, date |-> Date(t[2], t[1], 1)]
    ELSE [ok |-> FALSE, date |-> Date(0, 0, 0)]

\* DateLE with the comparison turned round.
DateGE(a, b) ==
    \/ a.year > b.year
    \/ a.year = b.year /\ a.month > b.month
    \/ a.year = b.year /\ a.month = b.month /\ a.day >= b.day

\* date <= date
DateLE(a, b) ==
    \/ a.year < b.year
    \/ a.year = b.year /\ a.month < b.month
    \/ a.year = b.year /\ a.month = b.month /\ a.day <= b.day

Greatest(a, b) == IF DateLE(a, b) THEN b ELSE a
Least(a, b) == IF DateLE(a, b) THEN a ELSE b

RECURSIVE SumSeq(_)
SumSeq(s) == IF s = << >> THEN 0 ELSE Head(s) + SumSeq(Tail(s))

\* The orders in which a scan may hand over the rows with ids in S.
ScanOrders(S) ==
    {o \in [1..Cardinality(S) -> S] : \A i, j \in DOMAIN o : i # j => o[i] # o[j]}

(***************************************************************************)
(* Dynamic WHERE construction: " AND col = $n" clauses over positional     *)
(* arguments                                                               *)
(***************************************************************************)
Clause(column, param) == [column |-> column, param |-> param]

\* A row passes when every appended clause holds for it.
PassesClauses(row, clauses, args) ==
    \A k \in 1..Len(clauses) : row[clauses[k].column] = args[clauses[k].param]

\* ListWhere whose service_name clause replaces the clauses before it.
ListWhereLastClauseOnly(query) ==
    LET bad == query.user_id # Nil /\ ~ParseUUID(Deref(query.user_id)).ok
        args1 == IF query.user_id # Nil
                 THEN <<ParseUUID(Deref(query.user_id)).id>> ELSE << >>
        argIndex1 == IF query.user_id # Nil THEN 2 ELSE 1
    IN  IF bad
        THEN [err |-> ErrInvalidUserID, clauses |-> << >>, args |-> << >>,
              argIndex |-> 1]
        ELSE IF query.service_name # Nil
        THEN [err |-> NoError,
              clauses |-> <<Clause("service_name", argIndex1)>>,
              args |-> Append(args1, Deref(query.service_name)),
              argIndex |-> argIndex1 + 1]
        ELSE [err |-> NoError,
              clauses |-> IF query.user_id # Nil
                          THEN <<Clause("user_id", 1)>> ELSE << >>,
              args |-> args1, argIndex |-> argIndex1]

\* subscriptionRepo.List: WHERE 1=1 [AND user_id = $n] [AND service_name = $n]
ListWhere(query) ==
    LET args0 == << >>
        argIndex0 == 1
        bad == query.user_id # Nil /\ ~ParseUUID(Deref(query.user_id)).ok
        clauses1 == IF query.user_id # Nil
                    THEN <<Clause("user_id", argIndex0)>> ELSE << >>
        args1 == IF query.user_id # Nil
                 THEN Append(args0, ParseUUID(Deref(query.user_id)).id) ELSE args0
        argIndex1 == IF query.user_id # Nil THEN argIndex0 + 1 ELSE argIndex0
        clauses2 == IF query.service_name # Nil
                    THEN Append(clauses1, Clause("service_name", argIndex1))
                    ELSE clauses1
        args2 == IF query.service_name # Nil
                 THEN Append(args1, Deref(query.service_name)) ELSE args1
        argIndex2 == IF query.service_name # Nil THEN argIndex1 + 1 ELSE argIndex1
    IN  IF bad
        THEN [err |-> ErrInvalidUserID, clauses |-> << >>, args |-> args0,
              argIndex |-> argIndex0]
        ELSE [err |-> NoError, clauses |-> clauses2, args |-> args2,
              argIndex |-> argIndex2]

\* CalcWhere dropping a user_id that does not parse instead of failing.
CalcWhereLenient(req) ==
    LET args0 == <<req.start_period, req.end_period>>
        given == req.user_id # Nil /\ ParseUUID(Deref(req.user_id)).ok
        clauses1 == IF given THEN <<Clause("user_id", 3)>> ELSE << >>
        args1 == IF given
                 THEN Append(args0, ParseUUID(Deref(req.user_id)).id) ELSE args0
        argIndex1 == IF given THEN 4 ELSE 3
    IN  IF req.service_name # Nil
        THEN [err |-> NoError,
              clauses |-> Append(clauses1, Clause("service_name", argIndex1)),
              args |-> Append(args1, Deref(req.service_name)),
              argIndex |-> argIndex1 + 1]
        ELSE [err |-> NoError, clauses |-> clauses1, args |-> args1,
              argIndex |-> argIndex1]

\* subscriptionRepo.CalculateTotal: the same clauses after $1, $2
CalcWhere(req) ==
    LET args0 == <<req.start_period, req.end_period>>
        argIndex0 == 3
        bad == req.user_id # Nil /\ ~ParseUUID(Deref(req.user_id)).ok
        clauses1 == IF req.user_id # Nil
                    THEN <<Clause("user_id", argIndex0)>> ELSE << >>
        args1 == IF req.user_id # Nil
                 THEN Append(args0, ParseUUID(Deref(req.user_id)).id) ELSE args0
        argIndex1 == IF req.user_id # Nil THEN argIndex0 + 1 ELSE argIndex0
        clauses2 == IF req.service_name # Nil
                    THEN Append(clauses1, Clause("service_name", argIndex1))
                    ELSE clauses1
        args2 == IF req.service_name # Nil
                 THEN Append(args1, Deref(req.service_name)) ELSE args1
        argIndex2 == IF req.service_name # Nil THEN argIndex1 + 1 ELSE argIndex1
    IN  IF bad
        THEN [err |-> ErrInvalidUserID, clauses |-> << >>, args |-> args0,
              argIndex |-> argIndex0]
        ELSE [err |-> NoError, clauses |-> clauses2, args |-> args2,
              argIndex |-> argIndex2]

(***************************************************************************)
(* subscriptionRepo.CalculateTotal: the period_calculations query          *)
(***************************************************************************)
\* TO_DATE(start_date, 'MM-YYYY') <= TO_DATE($2, 'MM-YYYY')
StartsBeforeEnd(row, req) ==
    LET a == ToDate(row.start_date)
        b == ToDate(req.end_period)
    IN  IF ~a.ok \/ ~b.ok THEN "error"
        ELSE IF DateLE(a.date, b.date) THEN "true" ELSE "false"

\* end_date IS NULL OR TO_DATE(end_date, 'MM-YYYY') >= TO_DATE($1, 'MM-YYYY')
EndsAfterStart(row, req) ==
    IF row.end_date = Nil THEN "true"
    ELSE LET c == ToDate(Deref(row.end_date))
             d == ToDate(req.start_period)
         IN  IF ~c.ok \/ ~d.ok THEN "error"
             ELSE IF DateLE(d.date, c.date) THEN "true" ELSE "false"

\* The values of the conjuncts of the CTE's WHERE for one row.
Conjuncts(row, req, w) ==
    {StartsBeforeEnd(row, req), EndsAfterStart(row, req),
     IF PassesClauses(row, w.clauses, w.args) THEN "true" ELSE "false"}

\* The row is in period_calculations: every conjunct holds.
Selected(row, req, w) == Conjuncts(row, req, w) = {"true"}

\* CalcStart without the clipping to the query start.
CalcStartUnclipped(row, req) == ToDate(row.start_date).date

\* GREATEST(TO_DATE(start_date), TO_DATE($1)) as calc_start
CalcStart(row, req) ==
    Greatest(ToDate(row.start_date).date, ToDate(req.start_period).date)

\* LEAST(COALESCE(TO_DATE(end_date), TO_DATE($2)), TO_DATE($2)) as calc_end
CalcEnd(row, req) ==
    Least(IF row.end_date # Nil THEN ToDate(Deref(row.end_date)).date
          ELSE ToDate(req.end_period).date,
          ToDate(req.end_period).date)

\* The select list of a selected row needs every text it converts to parse.
SelectListFails(row, req) ==
    \/ ~ToDate(row.start_date).ok
    \/ ~ToDate(req.start_period).ok
    \/ ~ToDate(req.end_period).ok
    \/ row.end_date # Nil /\ ~ToDate(Deref(row.end_date)).ok

\* PostgreSQL fixes no order among the conjuncts of a WHERE. A row raises the
\* conversion error in some order when a conjunct that converts a malformed
\* text is evaluated, and in every order when no conjunct is false.
RowMayFail(row, req, w) ==
    \/ "error" \in Conjuncts(row, req, w)
    \/ Selected(row, req, w) /\ SelectListFails(row, req)

RowMustFail(row, req, w) ==
    /\ "false" \notin Conjuncts(row, req, w)
    /\ \/ "error" \in Conjuncts(row, req, w)
       \/ SelectListFails(row, req)

\* RowCost counting the months exclusively: the "+ 1" left out.
RowCostExclusive(row, req) ==
    LET cs == CalcStart(row, req)
        ce == CalcEnd(row, req)
    IN  row.price * ((ce.year - cs.year) * 12 + (ce.month - cs.month))

\* price * ((year(calc_end) - year(calc_start)) * 12
\*          + (month(calc_end) - month(calc_start)) + 1)
RowCost(row, req) ==
    LET cs == CalcStart(row, req)
        ce == CalcEnd(row, req)
    IN  row.price * ((ce.year - cs.year) * 12 + (ce.month - cs.month) + 1)

\* Overlaps with the outer WHERE left out: every selected row is summed.
OverlapsUnchecked(row, req) == TRUE

\* FROM period_calculations WHERE calc_end >= calc_start
Overlaps(row, req) == DateLE(CalcStart(row, req), CalcEnd(row, req))

\* COALESCE(SUM(...), 0)::int over the rows in the order the scan yields them
SumCosts(tbl, scan, req) ==
    SumSeq([k \in DOMAIN scan |-> RowCost(tbl[scan[k]], req)])

\* The results the query can have: [err, total, matched, queries].
RepoCalculateTotal(tbl, req) ==
    LET w == CalcWhere(req)
        matched == {i \in DOMAIN tbl : Selected(tbl[i], req, w)}
        summed == {i \in matched : Overlaps(tbl[i], req)}
        mayFail == \/ \E i \in DOMAIN tbl : RowMayFail(tbl[i], req, w)
                   \/ ~ToDate(req.start_period).ok
                   \/ ~ToDate(req.end_period).ok
        mustFail == \E i \in DOMAIN tbl : RowMustFail(tbl[i], req, w)
    IN  IF w.err # NoError
        THEN {[err |-> w.err, total |-> 0, matched |-> {}, queries |-> 0]}
        ELSE (IF mayFail
              THEN {[err |-> ErrDateOutOfRange, total |-> 0, matched |-> {},
                     queries |-> 1]}
              ELSE {})
             \cup
             (IF mustFail
              THEN {}
              ELSE {[err |-> NoError, total |-> SumCosts(tbl, scan, req),
                     matched |-> matched, queries |-> 1] :
                        scan \in ScanOrders(summed)})

(***************************************************************************)
(* subscriptionRepo.List                                                   *)
(***************************************************************************)
DefaultLimit == 100

\* ORDER BY created_at DESC: the orders of the matched rows that respect it
OrderedByCreatedDesc(tbl, S) ==
    {o \in ScanOrders(S) :
        \A i, j \in DOMAIN o :
            i < j => tbl[o[i]].created_at >= tbl[o[j]].created_at}

\* LIMIT $n [OFFSET $m] applied to the ordered rows
Page(rows, limit, offset) ==
    LET lim == IF limit > 0 THEN limit ELSE DefaultLimit
        off == IF offset > 0 THEN offset ELSE 0
        last == IF off + lim < Len(rows) THEN off + lim ELSE Len(rows)
    IN  SubSeq(rows, off + 1, last)

\* The results the query can have: [err, body, matched, queries].
RepoList(tbl, query) ==
    LET w == ListWhere(query)
        matched == {i \in DOMAIN tbl : PassesClauses(tbl[i], w.clauses, w.args)}
    IN  IF w.err # NoError
        THEN {[err |-> w.err, body |-> << >>, matched |-> {}, queries |-> 0]}
        ELSE {[err |-> NoError,
               body |-> Page([k \in DOMAIN o |-> tbl[o[k]]],
                             query.limit, query.offset),
               matched |-> matched, queries |-> 1] :
                  o \in OrderedByCreatedDesc(tbl, matched)}

(***************************************************************************)
(* HTTP handlers: one request is in flight at a time; resp holds its       *)
(* response until the Logger middleware has logged it.                     *)
(***************************************************************************)
\* POST /subscriptions
CreateSubscription(req) ==
    /\ resp = Nil
    /\ UNCHANGED calls
    /\ IF ~BindCreate(req)
       THEN /\ resp' = Ptr(Response("create", StatusBadRequest, ErrBind, << >>,
                                    0, 0, {}, Nil))
            /\ UNCHANGED <<store, nextId, now>>
       ELSE /\ nextId <= MaxSubs
            /\ now < MaxTime
            /\ LET sub == NewSubscription(req, nextId, now)
               IN  /\ store' = RepoCreate(store, sub)
                   /\ resp' = Ptr(Response("create", StatusCreated, NoError,
                                           <<sub>>, 0, 1, {sub.id}, Nil))
            /\ nextId' = nextId + 1
            /\ now' = now + 1

\* GET /subscriptions/:id
GetSubscription(idStr) ==
    /\ resp = Nil
    /\ UNCHANGED <<store, nextId, now, calls>>
    /\ IF ~ParseUUID(idStr).ok
       THEN resp' = Ptr(Response("get", StatusBadRequest, ErrInvalidID, << >>,
                                 0, 0, {}, Nil))
       ELSE LET got == RepoGetByID(store, ParseUUID(idStr).id)
            IN  IF got.err = ErrNotFound
                THEN resp' = Ptr(Response("get", StatusNotFound, ErrNotFound,
                                          << >>, 0, 1, {}, Nil))
                ELSE resp' = Ptr(Response("get", StatusOK, NoError,
                                          <<Deref(got.sub)>>, 0, 1,
                                          {Deref(got.sub).id}, Nil))

\* SubscriptionService.Update: GetByID, copy the request's fields, repo.Update
ServiceUpdate(tbl, id, req, t) ==
    LET got == RepoGetByID(tbl, id)
        sub == ApplyUpdate(Deref(got.sub), req, t)
        put == RepoUpdate(tbl, sub)
    IN  IF got.err # NoError
        THEN [err |-> got.err, sub |-> Nil, tbl |-> tbl, queries |-> 1]
        ELSE IF put.err # NoError
        THEN [err |-> put.err, sub |-> Nil, tbl |-> put.tbl, queries |-> 2]
        ELSE [err |-> NoError, sub |-> Ptr(sub), tbl |-> put.tbl, queries |-> 2]

\* PUT /subscriptions/:id
UpdateSubscription(idStr, req) ==
    /\ resp = Nil
    /\ UNCHANGED <<nextId, calls>>
    /\ IF ~ParseUUID(idStr).ok
       THEN /\ resp' = Ptr(Response("update", StatusBadRequest, ErrInvalidID,
                                    << >>, 0, 0, {}, Nil))
            /\ UNCHANGED <<store, now>>
       ELSE IF ~BindUpdate(req)
       THEN /\ resp' = Ptr(Response("update", StatusBadRequest, ErrBind,
                                    << >>, 0, 0, {}, Nil))
            /\ UNCHANGED <<store, now>>
       ELSE LET out == ServiceUpdate(store, ParseUUID(idStr).id, req, now)
            IN  /\ out.queries = 1 \/ now < MaxTime
                /\ store' = out.tbl
                /\ resp' = Ptr(Response("update",
                                IF out.err = NoError THEN StatusOK
                                ELSE IF out.err = ErrNotFound
                                THEN StatusNotFound
                                ELSE StatusInternalServerError,
                                out.err,
                                IF out.sub = Nil THEN << >>
                                ELSE <<Deref(out.sub)>>,
                                0, out.queries,
                                IF out.err = NoError
                                THEN {ParseUUID(idStr).id} ELSE {}, Nil))
                /\ now' = IF out.queries = 1 THEN now ELSE now + 1

\* DELETE /subscriptions/:id
DeleteSubscription(idStr) ==
    /\ resp = Nil
    /\ UNCHANGED <<nextId, now, calls>>
    /\ IF ~ParseUUID(idStr).ok
       THEN /\ resp' = Ptr(Response("delete", StatusBadRequest, ErrInvalidID,
                                    << >>, 0, 0, {}, Nil))
            /\ UNCHANGED store
       ELSE LET out == RepoDelete(store, ParseUUID(idStr).id)
            IN  /\ store' = out.tbl
                /\ resp' = Ptr(Response("delete",
                                IF out.err = NoError THEN StatusOK
                                ELSE StatusNotFound,
                                out.err, << >>, 0, 1,
                                IF out.err = NoError
                                THEN {ParseUUID(idStr).id} ELSE {}, Nil))

\* binding:"min=1,max=100" on limit and "min=0" on offset
BindList(query) ==
    /\ query.limit >= 1
    /\ query.limit <= 100
    /\ query.offset >= 0

\* GET /subscriptions
ListSubscriptions(query) ==
    /\ resp = Nil
    /\ UNCHANGED <<store, nextId, now, calls>>
    /\ IF ~BindList(query)
       THEN resp' = Ptr(Response("list", StatusBadRequest, ErrBind, << >>,
                                 0, 0, {}, Ptr(query)))
       ELSE \E out \in RepoList(store, query) :
                resp' = Ptr(Response("list",
                             IF out.err = NoError THEN StatusOK
                             ELSE StatusInternalServerError,
                             out.err, out.body, 0, out.queries, out.matched,
                             Ptr(query)))

\* binding:"required" on start_period and end_period
BindCalculate(req) ==
    /\ req.start_period # EmptyText
    /\ req.end_period # EmptyText

\* GET /subscriptions/calculate
CalculateTotal(req) ==
    /\ resp = Nil
    /\ UNCHANGED <<store, nextId, now, calls>>
    /\ IF ~BindCalculate(req)
       THEN resp' = Ptr(Response("calculate", StatusBadRequest, ErrBind, << >>,
                                 0, 0, {}, Ptr(req)))
       ELSE \E out \in RepoCalculateTotal(store, req) :
                resp' = Ptr(Response("calculate",
                             IF out.err = NoError THEN StatusOK
                             ELSE StatusInternalServerError,
                             out.err, << >>, out.total, out.queries,
                             out.matched, Ptr(req)))

\* middleware.Logger: after c.Next() the request is logged and is over.
Logger ==
    /\ resp # Nil
    /\ resp' = Nil
    /\ UNCHANGED <<store, nextId, now, calls>>

(***************************************************************************)
(* PUT /subscriptions/:id served by several goroutines: the handler issues *)
(* two statements, GetByID then repo.Update, with no transaction around    *)
(* them, so statements of other requests can run in between.               *)
(***************************************************************************)
Calls == 1..MaxCalls

\* A goroutine that is serving no Update.
Idle == [pc |-> "idle", id |-> NilUUID, req |-> Nil, sub |-> Nil, resp |-> Nil]

\* c.JSON(...) ; return : the goroutine has written its response. id, req and
\* sub (the row GetByID returned, if it did) are kept as bookkeeping.
Returned(id, req, sub, response) ==
    [pc |-> "done", id |-> id, req |-> Ptr(req), sub |-> sub,
     resp |-> Ptr(response)]

\* UpdateSubscription up to the return of s.repo.GetByID: uuid.Parse,
\* ShouldBindJSON and the SELECT.
UpdateRead(p, idStr, req) ==
    /\ calls[p].pc = "idle"
    /\ UNCHANGED <<store, nextId, now, resp>>
    /\ IF ~ParseUUID(idStr).ok
       THEN calls' = [calls EXCEPT ![p] =
                Returned(NilUUID, req, Nil,
                         Response("update", StatusBadRequest, ErrInvalidID,
                                  << >>, 0, 0, {}, Nil))]
       ELSE IF ~BindUpdate(req)
       THEN calls' = [calls EXCEPT ![p] =
                Returned(ParseUUID(idStr).id, req, Nil,
                         Response("update", StatusBadRequest, ErrBind,
                                  << >>, 0, 0, {}, Nil))]
       ELSE LET id == ParseUUID(idStr).id
                got == RepoGetByID(store, id)
            IN  IF got.err # NoError
                THEN calls' = [calls EXCEPT ![p] =
                         Returned(id, req, Nil,
                                  Response("update", StatusNotFound, got.err,
                                           << >>, 0, 1, {}, Nil))]
                ELSE calls' = [calls EXCEPT ![p] =
                         [pc |-> "read", id |-> id, req |-> Ptr(req),
                          sub |-> got.sub, resp |-> Nil]]

\* The rest of SubscriptionService.Update and of the handler: copy the
\* request's fields over the row that was read, stamp it, UPDATE, respond.
UpdateWrite(p) ==
    /\ calls[p].pc = "read"
    /\ now < MaxTime
    /\ UNCHANGED <<nextId, resp>>
    /\ LET sub == ApplyUpdate(Deref(calls[p].sub), Deref(calls[p].req), now)
           put == RepoUpdate(store, sub)
       IN  /\ store' = put.tbl
           /\ calls' = [calls EXCEPT ![p] =
                  Returned(calls[p].id, Deref(calls[p].req), calls[p].sub,
                           Response("update",
                                    IF put.err = NoError THEN StatusOK
                                    ELSE IF put.err = ErrNotFound
                                    THEN StatusNotFound
                                    ELSE StatusInternalServerError,
                                    put.err,
                                    IF put.err = NoError THEN <<sub>>
                                    ELSE << >>,
                                    0, 2,
                                    IF put.err = NoError THEN {sub.id}
                                    ELSE {}, Nil))]
    /\ now' = now + 1

\* middleware.Logger in the goroutine: the request is logged and is over.
UpdateLogged(p) ==
    /\ calls[p].pc = "done"
    /\ calls' = [calls EXCEPT ![p] = Idle]
    /\ UNCHANGED <<store, nextId, now, resp>>

(***************************************************************************)
(* Requests                                                                *)
(***************************************************************************)
PathIds == {UUIDText(i) : i \in 1..MaxSubs} \cup {BadUUIDText}

CreateRequests ==
    [service_name : {"", "A"},
     price : {-1, 0, 1},
     user_id : {UUIDText(1), UUIDText(NilUUID), BadUUIDText},
     start_date : {EmptyText, Jan2025, Bad2025},
     end_date : {Nil, Ptr(Dec2024), Ptr(Mar2025)}]

UpdateRequests ==
    [service_name : {Nil, Ptr("B")},
     price : {Nil, Ptr(-1)},
     start_date : {Nil, Ptr(Mar2025), Ptr(Bad2025)},
     end_date : {Nil, Ptr(Jan2025)}]

UserFilters == {Nil, Ptr(UrnUUIDText(1)), Ptr(BadUUIDText)}
NameFilters == {Nil, Ptr("A")}

ListQueries ==
    [user_id : UserFilters, service_name : NameFilters,
     limit : {0, 1, 100}, offset : {0, 1}]

CalculateRequests ==
    [user_id : UserFilters, service_name : NameFilters,
     start_period : ValidDateTexts, end_period : ValidDateTexts]
    \cup
    [user_id : UserFilters, service_name : NameFilters,
     start_period : {Bad2025, EmptyText}, end_period : {Jan2025}]
    \cup
    [user_id : UserFilters, service_name : NameFilters,
     start_period : {Jan2025}, end_period : {Bad2025}]

\* The queries issued between the writes of a run.
ProbeListQueries ==
    [user_id : {Nil}, service_name : {Nil}, limit : {100}, offset : {0}]

ProbeCalculateRequests ==
    [user_id : {Nil}, service_name : {Nil},
     start_period : {Dec2024}, end_period : {Mar2025}]

(***************************************************************************)
(* The service from start-up: an empty table, any requests                 *)
(***************************************************************************)
Init ==
    /\ store = << >>
    /\ nextId = 1
    /\ now = 0
    /\ resp = Nil
    /\ calls = [p \in Calls |-> Idle]

Next ==
    \/ \E req \in CreateRequests : CreateSubscription(req)
    \/ \E idStr \in PathIds : GetSubscription(idStr)
    \/ \E idStr \in PathIds, req \in UpdateRequests : UpdateSubscription(idStr, req)
    \/ \E idStr \in PathIds : DeleteSubscription(idStr)
    \/ \E query \in ProbeListQueries : ListSubscriptions(query)
    \/ \E req \in ProbeCalculateRequests : CalculateTotal(req)
    \/ Logger

Spec == Init /\ [][Next]_vars

(***************************************************************************)
(* The queries over a table filled by earlier requests                     *)
(***************************************************************************)
\* Who owns a row, what it is called and what it costs.
RowProfiles ==
    {[service_name |-> "A", price |-> 1, user_id |-> 1],
     [service_name |-> "B", price |-> 2, user_id |-> 1],
     [service_name |-> "A", price |-> 3, user_id |-> 2]}

\* Its period: open-ended, one month, across the year's end, starting late;
\* and the two shapes Create also stores: a month of 13, an end before the start.
RowPeriods ==
    {[start_date |-> Dec2024, end_date |-> Nil],
     [start_date |-> Jan2025, end_date |-> Ptr(Jan2025)],
     [start_date |-> Dec2024, end_date |-> Ptr(Mar2025)],
     [start_date |-> Mar2025, end_date |-> Nil]}

OddRows ==
    {[service_name |-> "A", price |-> 1, user_id |-> 1,
      start_date |-> Bad2025, end_date |-> Nil],
     [service_name |-> "A", price |-> 1, user_id |-> 1,
      start_date |-> Mar2025, end_date |-> Ptr(Dec2024)]}

StoredRows ==
    {[service_name |-> p.service_name, price |-> p.price, user_id |-> p.user_id,
      start_date |-> d.start_date, end_date |-> d.end_date] :
        p \in RowProfiles, d \in RowPeriods}
    \cup OddRows

\* The tables n accepted Create requests leave: row i has id i and was
\* created at time i - 1.
QueryStores(n) ==
    {[i \in 1..n |->
        Subscription(i, f[i].service_name, f[i].price, f[i].user_id,
                     f[i].start_date, f[i].end_date, i - 1, i - 1)] :
        f \in [1..n -> StoredRows]}

QueryInit ==
    /\ \E n \in 0..MaxSubs :
         /\ store \in QueryStores(n)
         /\ nextId = n + 1
         /\ now = n
    /\ resp = Nil
    /\ calls = [p \in Calls |-> Idle]

QueryNext ==
    \/ \E query \in ListQueries : ListSubscriptions(query)
    \/ \E req \in CalculateRequests : CalculateTotal(req)
    \/ Logger

SpecQuery == QueryInit /\ [][QueryNext]_vars

(***************************************************************************)
(* The service under concurrent requests: Create and Delete issue one      *)
(* statement each and take effect at it; Updates run in the goroutines,    *)
(* one statement at a time.                                                *)
(***************************************************************************)
ConcurrentCreateRequests ==
    {req \in CreateRequests :
        /\ BindCreate(req)
        /\ req.start_date = Jan2025
        /\ req.end_date = Nil}

\* Bodies that carry exactly one field: a price or an end_date.
ConcurrentUpdateRequests ==
    {req \in [service_name : {Nil}, price : {Nil, Ptr(2)},
               start_date : {Nil}, end_date : {Nil, Ptr(Jan2025)}] :
        Cardinality({f \in DOMAIN req : req[f] # Nil}) = 1}

\* Paths that name a UUID.
ConcurrentPathIds == {idStr \in PathIds : ParseUUID(idStr).ok}

ConcurrentNext ==
    \/ \E req \in ConcurrentCreateRequests : CreateSubscription(req)
    \/ \E idStr \in ConcurrentPathIds : DeleteSubscription(idStr)
    \/ Logger
    \/ \E p \in Calls, idStr \in ConcurrentPathIds,
            req \in ConcurrentUpdateRequests :
          UpdateRead(p, idStr, req)
    \/ \E p \in Calls : UpdateWrite(p)
    \/ \E p \in Calls : UpdateLogged(p)

SpecConcurrent == Init /\ [][ConcurrentNext]_vars

(***************************************************************************)
(* The vocabulary of the properties: calendar months and the period rule   *)
(***************************************************************************)
IsMonthText(t) == Len(t) = 2 /\ t[1] \in 1..12
Month(t) == [year |-> t[2], month |-> t[1]]
monthsBetween(a, b) == (b.year - a.year) * 12 + (b.month - a.month)
MonthLE(a, b) == a.year < b.year \/ (a.year = b.year /\ a.month <= b.month)
MaxMonth(a, b) == IF MonthLE(a, b) THEN b ELSE a
MinMonth(a, b) == IF MonthLE(a, b) THEN a ELSE b

\* Every date text of the row is a month.
RowWellTyped(row) ==
    /\ IsMonthText(row.start_date)
    /\ row.end_date # Nil => IsMonthText(Deref(row.end_date))

\* ... and its end, when present, is not before its start.
RowWellFormed(row) ==
    /\ RowWellTyped(row)
    /\ row.end_date # Nil =>
           MonthLE(Month(row.start_date), Month(Deref(row.end_date)))

\* price * (monthsBetween(max(start, qs), min(end or qe, qe)) + 1) when the
\* clipped end is not before the clipped start, and 0 otherwise.
ClippedCost(row, qs, qe) ==
    LET cs == MaxMonth(Month(row.start_date), qs)
        ce == MinMonth(IF row.end_date # Nil THEN Month(Deref(row.end_date))
                       ELSE qe, qe)
    IN  IF MonthLE(cs, ce) THEN row.price * (monthsBetween(cs, ce) + 1) ELSE 0

RECURSIVE ClippedTotal(_, _, _, _)
ClippedTotal(tbl, S, qs, qe) ==
    IF S = {} THEN 0
    ELSE LET i == CHOOSE x \in S : TRUE
         IN  ClippedCost(tbl[i], qs, qe) + ClippedTotal(tbl, S \ {i}, qs, qe)

\* The table without row i.
Without(tbl, i) == [j \in DOMAIN tbl \ {i} |-> tbl[j]]

\* The response being answered is that of operation op.
Answered(op) == resp # Nil /\ Deref(resp).op = op
Answer == Deref(resp)
Query == Deref(Deref(resp).req)

\* A calculate request that reached the repository with a period of two months.
CalculateAnswered ==
    /\ Answered("calculate")
    /\ BindCalculate(Query)
    /\ IsMonthText(Query.start_period)
    /\ IsMonthText(Query.end_period)

Unfiltered == Query.user_id = Nil /\ Query.service_name = Nil
UserFilterParses == Query.user_id # Nil => ParseUUID(Deref(Query.user_id)).ok
QueryStart == Month(Query.start_period)
QueryEnd == Month(Query.end_period)

(***************************************************************************)
(* C1: over a table of well-formed rows, CalculateTotal without filters    *)
(* succeeds and returns exactly the sum, over all rows, of                 *)
(* price * (monthsBetween(clipped start, clipped end) + 1) for the rows    *)
(* whose clipped end is not before their clipped start, whatever the order *)
(* in which the rows are scanned.                                          *)
(***************************************************************************)
C1_TotalIsSumOfClippedMonths ==
    (/\ CalculateAnswered
     /\ Unfiltered
     /\ \A i \in DOMAIN store : RowWellFormed(store[i]))
    => /\ Answer.status = StatusOK
       /\ Answer.err = NoError
       /\ Answer.total = ClippedTotal(store, DOMAIN store, QueryStart, QueryEnd)

\* Two rows, one closed and clipped by the query, one open-ended, both billed.
C1_Witness ==
    /\ CalculateAnswered
    /\ Unfiltered
    /\ \A i \in DOMAIN store : RowWellFormed(store[i])
    /\ Cardinality(DOMAIN store) = 2
    /\ \E i, j \in DOMAIN store :
          /\ store[i].end_date = Nil
          /\ store[j].end_date # Nil
          /\ ClippedCost(store[i], QueryStart, QueryEnd) > 0
          /\ ClippedCost(store[j], QueryStart, QueryEnd) > store[j].price
    /\ QueryStart.year < QueryEnd.year
    /\ Answer.total > 0

(***************************************************************************)
(* C2: over a table whose date texts are months, CalculateTotal for a      *)
(* period whose start is later than its end returns no error and a total   *)
(* of exactly 0, with or without filters.                                  *)
(***************************************************************************)
C2_ReversedPeriodIsZero ==
    (/\ CalculateAnswered
     /\ UserFilterParses
     /\ ~MonthLE(QueryStart, QueryEnd)
     /\ \A i \in DOMAIN store : RowWellTyped(store[i]))
    => /\ Answer.status = StatusOK
       /\ Answer.err = NoError
       /\ Answer.total = 0

\* A reversed period over an open-ended row and a row spanning both bounds.
C2_Witness ==
    /\ CalculateAnswered
    /\ ~MonthLE(QueryStart, QueryEnd)
    /\ Answer.status = StatusOK
    /\ \E i, j \in DOMAIN store :
          /\ store[i].end_date = Nil
          /\ IsMonthText(store[i].start_date)
          /\ MonthLE(Month(store[i].start_date), QueryEnd)
          /\ RowWellFormed(store[j])
          /\ store[j].end_date # Nil
          /\ MonthLE(Month(store[j].start_date), QueryEnd)
          /\ MonthLE(QueryStart, Month(Deref(store[j].end_date)))

(***************************************************************************)
(* C3: what an open-ended row that starts no later than the query start    *)
(* adds to a total CalculateTotal returns.                                 *)
(***************************************************************************)
\* Row i is open-ended, starts no later than the query and passes the filters.
OpenEndedFromBefore(i) ==
    /\ store[i].end_date = Nil
    /\ IsMonthText(store[i].start_date)
    /\ MonthLE(Month(store[i].start_date), QueryStart)
    /\ Query.user_id # Nil =>
           store[i].user_id = ParseUUID(Deref(Query.user_id)).id
    /\ Query.service_name # Nil =>
           store[i].service_name = Deref(Query.service_name)

\* What row i adds: the total minus the total of the same query without it.
AddsToTotal(i, n) ==
    \A out \in RepoCalculateTotal(Without(store, i), Query) :
        out.err = NoError => Answer.total - out.total = n

\* C3 as stated, for any order of the period's bounds: the row adds
\* price * (monthsBetween(q.start, q.end) + 1).
C3_OpenEndedAnyPeriod ==
    (CalculateAnswered /\ Answer.err = NoError)
    => \A i \in DOMAIN store :
          OpenEndedFromBefore(i)
          => AddsToTotal(i, store[i].price
                              * (monthsBetween(QueryStart, QueryEnd) + 1))

\* C3 amended: the same, for a period whose start is not after its end.
C3_OpenEndedOrderedPeriod ==
    (CalculateAnswered /\ Answer.err = NoError /\ MonthLE(QueryStart, QueryEnd))
    => \A i \in DOMAIN store :
          OpenEndedFromBefore(i)
          => AddsToTotal(i, store[i].price
                              * (monthsBetween(QueryStart, QueryEnd) + 1))

\* An open-ended row started before a period of several months, beside
\* another row.
C3_Witness ==
    /\ CalculateAnswered
    /\ Answer.err = NoError
    /\ monthsBetween(QueryStart, QueryEnd) >= 2
    /\ Cardinality(DOMAIN store) = 2
    /\ \E i \in DOMAIN store :
          /\ OpenEndedFromBefore(i)
          /\ Month(store[i].start_date) # QueryStart
          /\ AddsToTotal(i, store[i].price * 3)

(***************************************************************************)
(* C4: a row whose end is before the query start, or whose start is after  *)
(* the query end, adds nothing: CalculateTotal answers the table with the  *)
(* row exactly as it answers the table without it.                         *)
(***************************************************************************)
Disjoint(row) ==
    /\ RowWellTyped(row)
    /\ \/ /\ row.end_date # Nil
          /\ ~MonthLE(QueryStart, Month(Deref(row.end_date)))
       \/ ~MonthLE(Month(row.start_date), QueryEnd)

\* The error and total of every result the query can have over tbl.
Results(tbl, req) ==
    {[err |-> out.err, total |-> out.total] : out \in RepoCalculateTotal(tbl, req)}

C4_DisjointRowAddsNothing ==
    CalculateAnswered
    => \A i \in DOMAIN store :
          Disjoint(store[i])
          => /\ [err |-> Answer.err, total |-> Answer.total]
                    \in Results(Without(store, i), Query)
             /\ Results(store, Query) = Results(Without(store, i), Query)

\* A disjoint row beside a billed one, in an ordered period.
C4_Witness ==
    /\ CalculateAnswered
    /\ Answer.err = NoError
    /\ Answer.total > 0
    /\ MonthLE(QueryStart, QueryEnd)
    /\ \E i, j \in DOMAIN store :
          /\ Disjoint(store[i])
          /\ store[i].end_date # Nil
          /\ Disjoint(store[j]) => store[j].end_date = Nil
          /\ store[i].price > 0
          /\ PassesClauses(store[i], CalcWhere(Query).clauses,
                           CalcWhere(Query).args)

(***************************************************************************)
(* C5: when the user_id criterion of List or CalculateTotal is present and *)
(* does not parse, the operation fails with the error naming user_id,      *)
(* issues no storage query and returns no rows and a total of 0, with or   *)
(* without a service_name criterion.                                       *)
(***************************************************************************)
\* A list or calculate request that passed binding and reached the repository.
QueryAnswered ==
    \/ Answered("list") /\ BindList(Query)
    \/ Answered("calculate") /\ BindCalculate(Query)

C5_BadUserIdRejected ==
    (/\ QueryAnswered
     /\ Query.user_id # Nil
     /\ ~ParseUUID(Deref(Query.user_id)).ok)
    => /\ Answer.err = ErrInvalidUserID
       /\ Answer.status = StatusInternalServerError
       /\ Answer.queries = 0
       /\ Answer.body = << >>
       /\ Answer.total = 0
       /\ Answer.matched = {}

\* A malformed user_id beside a service_name that some stored row carries.
C5_Witness ==
    /\ Answered("calculate")
    /\ CalculateAnswered
    /\ Query.user_id = Ptr(BadUUIDText)
    /\ Query.service_name # Nil
    /\ MonthLE(QueryStart, QueryEnd)
    /\ Answer.err = ErrInvalidUserID
    /\ \E i \in DOMAIN store :
          /\ store[i].service_name = Deref(Query.service_name)
          /\ RowWellFormed(store[i])
          /\ ~Disjoint(store[i])

(***************************************************************************)
(* C6: the rows the filter of List and CalculateTotal selects are those    *)
(* equal to every criterion present (an absent one constrains nothing),    *)
(* and they are among the rows selected with any one criterion left out.   *)
(***************************************************************************)
\* Present criteria as a conjunction of exact-equality tests.
MeetsCriteria(row, q) ==
    /\ q.user_id # Nil => row.user_id = ParseUUID(Deref(q.user_id)).id
    /\ q.service_name # Nil => row.service_name = Deref(q.service_name)

\* The row is active in the period of a calculate request.
InPeriod(row, q) ==
    /\ RowWellTyped(row)
    /\ IsMonthText(q.start_period)
    /\ IsMonthText(q.end_period)
    /\ MonthLE(Month(row.start_date), Month(q.end_period))
    /\ row.end_date # Nil =>
           MonthLE(Month(q.start_period), Month(Deref(row.end_date)))

\* The request with one more criterion absent.
Relaxations(q) ==
    {[q EXCEPT !.user_id = Nil], [q EXCEPT !.service_name = Nil]} \ {q}

\* The ids the repository selects for q, in any of its successful results.
MatchedBy(op, tbl, q) ==
    IF op = "list"
    THEN UNION {out.matched : out \in {o \in RepoList(tbl, q) : o.err = NoError}}
    ELSE UNION {out.matched :
                   out \in {o \in RepoCalculateTotal(tbl, q) : o.err = NoError}}

C6_FilterIsMonotoneConjunction ==
    (QueryAnswered /\ Answer.err = NoError)
    => /\ Answer.matched =
              {i \in DOMAIN store :
                  /\ MeetsCriteria(store[i], Query)
                  /\ Answer.op = "calculate" => InPeriod(store[i], Query)}
       /\ \A q \in Relaxations(Query) :
              Answer.matched \subseteq MatchedBy(Answer.op, store, q)
       /\ \A k \in DOMAIN Answer.body : Answer.body[k].id \in Answer.matched

\* Both criteria present: some row meets both, another meets only one.
C6_Witness ==
    /\ Answered("list")
    /\ QueryAnswered
    /\ Answer.err = NoError
    /\ Query.user_id # Nil
    /\ Query.service_name # Nil
    /\ \E i, j \in DOMAIN store :
          /\ i \in Answer.matched
          /\ j \notin Answer.matched
          /\ store[j].user_id = store[i].user_id
          /\ j \in MatchedBy("list", store, [Query EXCEPT !.service_name = Nil])

(***************************************************************************)
(* C7: every stored subscription has price >= 0, and every total           *)
(* CalculateTotal returns is >= 0.                                         *)
(***************************************************************************)
C7_PricesAndTotalsNonNegative ==
    /\ \A i \in DOMAIN store : store[i].price >= 0
    /\ (Answered("calculate") /\ Answer.err = NoError) => Answer.total >= 0

(***************************************************************************)
(* C8: every stored subscription that has an end date has                  *)
(* end month >= start month.                                               *)
(***************************************************************************)
C8_EndNotBeforeStart ==
    \A i \in DOMAIN store :
        (RowWellTyped(store[i]) /\ store[i].end_date # Nil)
        => MonthLE(Month(store[i].start_date), Month(Deref(store[i].end_date)))

(***************************************************************************)
(* C9: every stored start_date and end_date has a month in 1..12: a Create *)
(* or Update carrying another month is rejected and stores nothing.        *)
(***************************************************************************)
C9_StoredMonthsInRange ==
    \A i \in DOMAIN store :
        /\ store[i].start_date[1] \in 1..12
        /\ store[i].end_date # Nil => Deref(store[i].end_date)[1] \in 1..12

(***************************************************************************)
(* C10: a successful Update of id sets, in the row with that id, the       *)
(* fields the request carries and updated_at; the fields it does not carry *)
(* keep their values, id, user_id and created_at stay, and every other row *)
(* and the set of ids are unchanged.                                       *)
(***************************************************************************)
\* Field f of the row after the update: the request's value when it carries
\* one, the row's previous value otherwise.
Carried(reqField, previous) ==
    IF reqField # Nil THEN Deref(reqField) ELSE previous

NotFoundAnswered(op) ==
    /\ resp' # Nil
    /\ Deref(resp').op = op
    /\ Deref(resp').status = StatusNotFound
    /\ Deref(resp').err = ErrNotFound
    /\ Deref(resp').body = << >>
    /\ store' = store

\* Ids that were created and then deleted.
Deleted(tbl, next) == (1..(next - 1)) \ DOMAIN tbl

C11_AbsentIdIsNotFound ==
    [][/\ resp = Nil /\ resp' # Nil
          => \A idStr \in PathIds :
               (ParseUUID(idStr).ok /\ ParseUUID(idStr).id \notin DOMAIN store)
               => /\ GetSubscription(idStr) => NotFoundAnswered("get")
                  /\ DeleteSubscription(idStr) => NotFoundAnswered("delete")
                  /\ \A req \in UpdateRequests :
                        UpdateSubscription(idStr, req)
                        => NotFoundAnswered("update")
       /\ Deleted(store, nextId) \subseteq Deleted(store', nextId')
      ]_vars

\* Every id of the run was created and deleted, and an Update that came
\* after was answered 404 having issued its SELECT only.
C11_Witness ==
    /\ nextId = MaxSubs + 1
    /\ Deleted(store, nextId) = 1..MaxSubs
    /\ Answered("update")
    /\ Answer.status = StatusNotFound
    /\ Answer.err = ErrNotFound
    /\ Answer.queries = 1

(***************************************************************************)
(* C12: when an Update's UPDATE statement runs after a Delete of the same  *)
(* id has removed the row the Update read, it writes nothing and the       *)
(* Update is answered 404 with ErrNotFound; under every interleaving an id *)
(* that was deleted is in no later store.                                  *)
(***************************************************************************)
C12_UpdateNeverRestoresDeleted ==
    [][/\ \A p \in Calls :
            (UpdateWrite(p) /\ calls[p].id \notin DOMAIN store)
            => /\ store' = store
               /\ Deref(calls'[p].resp).status = StatusNotFound
               /\ Deref(calls'[p].resp).err = ErrNotFound
       /\ \A i \in Deleted(store, nextId) : i \notin DOMAIN store'
      ]_vars

\* An Update read the row, the row was deleted, and the Update's write was
\* answered 404 after its second statement.
C12_Witness ==
    \E p \in Calls :
        /\ calls[p].pc = "done"
        /\ calls[p].sub # Nil
        /\ calls[p].id \in Deleted(store, nextId)
        /\ Deref(calls[p].resp).status = StatusNotFound
        /\ Deref(calls[p].resp).queries = 2

(***************************************************************************)
(* C13: when two Updates of the same subscription that carry different     *)
(* fields have both been answered 200, one written right after the other   *)
(* and nothing written since, the stored row has the value each of them    *)
(* carried: the later write does not put back what it read before the      *)
(* earlier one.                                                            *)
(***************************************************************************)
\* The fields a request body carries.
CarriedFields(req) == {f \in DOMAIN req : req[f] # Nil}

\* The value the row has in field f once the request is applied.
CarriedValue(req, f) == IF f = "end_date" THEN req[f] ELSE Deref(req[f])

\* The goroutine's Update was answered 200.
UpdateSucceeded(p) ==
    /\ calls[p].pc = "done"
    /\ Deref(calls[p].resp).status = StatusOK

\* p's Update and then q's were written to the same row, back to back, and
\* q's write is the row's latest.
WroteInTurn(p, q) ==
    /\ p # q
    /\ UpdateSucceeded(p)
    /\ UpdateSucceeded(q)
    /\ calls[p].id = calls[q].id
    /\ calls[q].id \in DOMAIN store
    /\ Deref(calls[q].resp).body[1].updated_at =
           Deref(calls[p].resp).body[1].updated_at + 1
    /\ store[calls[q].id].updated_at = Deref(calls[q].resp).body[1].updated_at

C13_ConcurrentUpdatesBothKept ==
    \A p, q \in Calls :
        (/\ WroteInTurn(p, q)
         /\ CarriedFields(Deref(calls[p].req))
               \cap CarriedFields(Deref(calls[q].req)) = {})
        => \A r \in {p, q} :
             \A f \in CarriedFields(Deref(calls[r].req)) :
                store[calls[r].id][f] = CarriedValue(Deref(calls[r].req), f)

====
